---- MODULE Spec2Model ----
(***************************************************************************)
(* hello-triangle.c: bring-up of a Vulkan presentation pipeline, one       *)
(* frame, idle until quit, teardown.  The control thread of main() is one  *)
(* process whose position is pc; every call main() makes is one action.    *)
(* What the platform (the Vulkan driver, SDL) answers is drawn with \E in  *)
(* the action that asks.  The device runs beside main(): it carries out    *)
(* the submission and the present DrawFrame handed to the queues.          *)
(***************************************************************************)
EXTENDS Integers, Sequences, FiniteSets, TLC

(***************************************************************************)
(* Bounds of the model.                                                    *)
(***************************************************************************)
MaxDevices == 2
MaxExtensions == 2
MaxFamilies == 2
MaxImages == 3
MaxCount == 3
MaxFormats == 2
MaxModes == 2
ExtentSlack == 1

(***************************************************************************)
(* uint32_t.  A value is kept as its two 16-bit halves <<hi, lo>>, so that *)
(* the whole range 0 .. 2^32 - 1 is there and x + 1 wraps as it does in C. *)
(***************************************************************************)
Half == 2 ^ 16

U32(n) == <<n \div Half, n % Half>>

UINT32_MAX == <<Half - 1, Half - 1>>

U32Lt(a, b) == a[1] < b[1] \/ (a[1] = b[1] /\ a[2] < b[2])

U32Gt(a, b) == U32Lt(b, a)

U32Le(a, b) == ~U32Lt(b, a)

\* a + 1 in uint32_t arithmetic
U32Inc(a) ==
    IF a[2] < Half - 1 THEN <<a[1], a[2] + 1>>
    ELSE IF a[1] < Half - 1 THEN <<a[1] + 1, 0>>
    ELSE <<0, 0>>

MAX(x, y) == IF U32Gt(x, y) THEN x ELSE y

MIN(x, y) == IF U32Lt(x, y) THEN x ELSE y

WIDTH == 800

HEIGHT == 600

VK_NULL_HANDLE == 0

requiredExtensions == <<"VK_KHR_swapchain">>

requiredExtensionCount == 1

VK_FORMAT_B8G8R8A8_UNORM == "VK_FORMAT_B8G8R8A8_UNORM"

VK_COLOR_SPACE_SRGB_NONLINEAR_KHR == "VK_COLOR_SPACE_SRGB_NONLINEAR_KHR"

VK_PRESENT_MODE_MAILBOX_KHR == "VK_PRESENT_MODE_MAILBOX_KHR"

VK_PRESENT_MODE_FIFO_KHR == "VK_PRESENT_MODE_FIFO_KHR"

(***************************************************************************)
(* Device selection (PickPhysicalVulkanDevice).  A device list is a        *)
(* sequence of [handle, discrete]; the handle of enumeration index i is    *)
(* i + 1, so that no handle is VK_NULL_HANDLE.                             *)
(***************************************************************************)
IsDiscreteGPU(device) == device.discrete

\* ScanDevices without the break of line 183: the last discrete GPU wins
RECURSIVE ScanDevices_NoBreak(_, _, _)
ScanDevices_NoBreak(devices, i, current) ==
    IF i >= Len(devices) THEN current
    ELSE ScanDevices_NoBreak(devices, i + 1,
                             IF IsDiscreteGPU(devices[i + 1])
                             THEN devices[i + 1].handle ELSE current)

\* the loop of lines 180-185 from index i (0-based) on: the handle it
\* leaves in physicalDevice, which held current before
RECURSIVE ScanDevices(_, _, _)
ScanDevices(devices, i, current) ==
    IF i >= Len(devices) THEN current
    ELSE IF IsDiscreteGPU(devices[i + 1]) THEN devices[i + 1].handle
    ELSE ScanDevices(devices, i + 1, current)

\* lines 180-190, for a non-empty list
SelectDevice(devices, current) ==
    LET found == ScanDevices(devices, 0, current)
    IN IF found = VK_NULL_HANDLE THEN devices[1].handle ELSE found

\* the inner loop of lines 206-211
ExtensionFound(name, properties) ==
    \E j \in 1..Len(properties) : properties[j] = name

\* HasRequiredExtensions with only the count test of line 197 left
HasRequiredExtensions_CountOnly(properties) == Len(properties) > 0

\* lines 204-215: no required extension is missing
HasRequiredExtensions(properties) ==
    \A i \in 1..requiredExtensionCount :
        ExtensionFound(requiredExtensions[i], properties)

(***************************************************************************)
(* Queue families (FindQueueFamilies).  A family list is a sequence of     *)
(* [graphics, present]: whether the family has VK_QUEUE_GRAPHICS_BIT, and  *)
(* what vkGetPhysicalDeviceSurfaceSupportKHR answers for it.               *)
(***************************************************************************)
ZeroIndices ==
    [graphicsFamily |-> 0, didSetGraphicsFamily |-> FALSE,
     presentFamily |-> 0, didSetPresentFamily |-> FALSE]

\* one iteration of the loop of lines 231-241, for family index i
ScanFamily(families, i, indices) ==
    LET g == [indices EXCEPT !.graphicsFamily = i,
                             !.didSetGraphicsFamily = TRUE]
    IN IF families[i + 1].present
       THEN [g EXCEPT !.presentFamily = i, !.didSetPresentFamily = TRUE]
       ELSE g

RECURSIVE ScanQueueFamilies(_, _, _)
ScanQueueFamilies(families, i, indices) ==
    IF i >= Len(families) THEN indices
    ELSE ScanQueueFamilies(families, i + 1, ScanFamily(families, i, indices))

FindQueueFamilies(families) ==
    IF Len(families) = 0 THEN ZeroIndices
    ELSE ScanQueueFamilies(families, 0, ZeroIndices)

\* lines 258-274: the queue-create entries handed to vkCreateDevice
QueueCreateInfoCount(indices) ==
    IF indices.graphicsFamily = indices.presentFamily THEN 1 ELSE 2

QueueCreateInfos(indices) ==
    SubSeq(<<[queueFamilyIndex |-> indices.graphicsFamily, queueCount |-> 1],
             [queueFamilyIndex |-> indices.presentFamily, queueCount |-> 1]>>,
           1, QueueCreateInfoCount(indices))

(***************************************************************************)
(* Swapchain negotiation.  details is swapchain_support_details_t:         *)
(* capabilities (uint32_t fields), formats, presentModes.                  *)
(***************************************************************************)
\* IsPreferredFormat without the test of the color space
IsPreferredFormat_AnyColorSpace(f) == f.format = VK_FORMAT_B8G8R8A8_UNORM

IsPreferredFormat(f) ==
    f.format = VK_FORMAT_B8G8R8A8_UNORM
        /\ f.colorSpace = VK_COLOR_SPACE_SRGB_NONLINEAR_KHR

RECURSIVE ScanFormats(_, _)
ScanFormats(details, i) ==
    IF i >= details.formatCount THEN details.formats[1]
    ELSE IF IsPreferredFormat(details.formats[i + 1]) THEN details.formats[i + 1]
    ELSE ScanFormats(details, i + 1)

ChooseSwapSurfaceFormat(details) == ScanFormats(details, 0)

\* ScanPresentModes falling back to list entry 0 (as ChooseSwapSurfaceFormat
\* does) where line 349 returns VK_PRESENT_MODE_FIFO_KHR
RECURSIVE ScanPresentModes_FallsBackToFirst(_, _)
ScanPresentModes_FallsBackToFirst(details, i) ==
    IF i >= details.presentModeCount THEN details.presentModes[1]
    ELSE IF details.presentModes[i + 1] = VK_PRESENT_MODE_MAILBOX_KHR
         THEN details.presentModes[i + 1]
    ELSE ScanPresentModes_FallsBackToFirst(details, i + 1)

RECURSIVE ScanPresentModes(_, _)
ScanPresentModes(details, i) ==
    IF i >= details.presentModeCount THEN VK_PRESENT_MODE_FIFO_KHR
    ELSE IF details.presentModes[i + 1] = VK_PRESENT_MODE_MAILBOX_KHR
         THEN details.presentModes[i + 1]
    ELSE ScanPresentModes(details, i + 1)

ChoosePresentMode(details) == ScanPresentModes(details, 0)

\* ChooseSwapExtent with MIN and MAX of lines 362-363 swapped
ChooseSwapExtent_MinMaxSwapped(details) ==
    IF details.capabilities.currentExtent.width # UINT32_MAX
    THEN details.capabilities.currentExtent
    ELSE [width |-> MIN(details.capabilities.minImageExtent.width,
                        MAX(details.capabilities.maxImageExtent.width, U32(WIDTH))),
          height |-> MIN(details.capabilities.minImageExtent.height,
                         MAX(details.capabilities.maxImageExtent.height, U32(HEIGHT)))]

ChooseSwapExtent(details) ==
    IF details.capabilities.currentExtent.width # UINT32_MAX
    THEN details.capabilities.currentExtent
    ELSE [width |-> MAX(details.capabilities.minImageExtent.width,
                        MIN(details.capabilities.maxImageExtent.width, U32(WIDTH))),
          height |-> MAX(details.capabilities.minImageExtent.height,
                         MIN(details.capabilities.maxImageExtent.height, U32(HEIGHT)))]

\* RequestedImageCount without the test maxImageCount > 0 of line 374
RequestedImageCount_CapsAtZero(capabilities) ==
    LET imageCount == U32Inc(capabilities.minImageCount)
    IN IF U32Gt(imageCount, capabilities.maxImageCount)
       THEN capabilities.maxImageCount
       ELSE imageCount

\* lines 373-376
RequestedImageCount(capabilities) ==
    LET imageCount == U32Inc(capabilities.minImageCount)
    IN IF U32Gt(capabilities.maxImageCount, U32(0))
          /\ U32Gt(imageCount, capabilities.maxImageCount)
       THEN capabilities.maxImageCount
       ELSE imageCount

\* SharingMode with the test of line 394 left out
SharingMode_AlwaysExclusive(indices) ==
    [imageSharingMode |-> "VK_SHARING_MODE_EXCLUSIVE",
     queueFamilyIndexCount |-> 0,
     pQueueFamilyIndices |-> <<>>]

\* lines 394-403
SharingMode(indices) ==
    IF indices.graphicsFamily # indices.presentFamily
    THEN [imageSharingMode |-> "VK_SHARING_MODE_CONCURRENT",
          queueFamilyIndexCount |-> 2,
          pQueueFamilyIndices |-> <<indices.graphicsFamily, indices.presentFamily>>]
    ELSE [imageSharingMode |-> "VK_SHARING_MODE_EXCLUSIVE",
          queueFamilyIndexCount |-> 0,
          pQueueFamilyIndices |-> <<>>]

\* lines 369-403: the VkSwapchainCreateInfoKHR CreateSwapChain builds
SwapchainCreateInfo(details, indices) ==
    LET surfaceFormat == ChooseSwapSurfaceFormat(details)
        sharing == SharingMode(indices)
    IN [minImageCount |-> RequestedImageCount(details.capabilities),
        imageFormat |-> surfaceFormat.format,
        imageColorSpace |-> surfaceFormat.colorSpace,
        imageExtent |-> ChooseSwapExtent(details),
        presentMode |-> ChoosePresentMode(details),
        imageSharingMode |-> sharing.imageSharingMode,
        queueFamilyIndexCount |-> sharing.queueFamilyIndexCount,
        pQueueFamilyIndices |-> sharing.pQueueFamilyIndices]

(***************************************************************************)
(* What the platform may answer.                                           *)
(***************************************************************************)
DeviceLists ==
    UNION {{[k \in 1..n |-> [handle |-> k, discrete |-> d[k]]] :
               d \in [1..n -> BOOLEAN]} : n \in 0..MaxDevices}

ExtensionNames == {"VK_KHR_swapchain", "VK_KHR_maintenance1"}

ExtensionLists == UNION {[1..n -> ExtensionNames] : n \in 0..MaxExtensions}

FamilyLists ==
    UNION {[1..n -> [graphics : BOOLEAN, present : BOOLEAN]] : n \in 0..MaxFamilies}

CountSample ==
    {U32(n) : n \in 0..MaxCount} \cup {<<Half - 1, Half - 2>>, UINT32_MAX}

MinWidths == {U32(1)} \cup {U32(w) : w \in (WIDTH - ExtentSlack)..(WIDTH + ExtentSlack)}

MaxWidths == {U32(w) : w \in (WIDTH - ExtentSlack)..(WIDTH + ExtentSlack)} \cup {UINT32_MAX}

MinHeights == {U32(1)} \cup {U32(h) : h \in (HEIGHT - ExtentSlack)..(HEIGHT + ExtentSlack)}

MaxHeights == {U32(h) : h \in (HEIGHT - ExtentSlack)..(HEIGHT + ExtentSlack)} \cup {UINT32_MAX}

\* the undefined extent, an extent of a HiDPI window, and the two mixtures
CurrentExtents ==
    [width : {UINT32_MAX, U32(2 * WIDTH)}, height : {UINT32_MAX, U32(2 * HEIGHT)}]

SurfaceFormats ==
    [format : {VK_FORMAT_B8G8R8A8_UNORM, "VK_FORMAT_B8G8R8A8_SRGB",
               "VK_FORMAT_R8G8B8A8_UNORM"},
     colorSpace : {VK_COLOR_SPACE_SRGB_NONLINEAR_KHR,
                   "VK_COLOR_SPACE_DISPLAY_P3_NONLINEAR_EXT"}]

FormatLists == UNION {[1..n -> SurfaceFormats] : n \in 0..MaxFormats}

PresentModes ==
    {VK_PRESENT_MODE_MAILBOX_KHR, VK_PRESENT_MODE_FIFO_KHR,
     "VK_PRESENT_MODE_IMMEDIATE_KHR"}

PresentModeLists == UNION {[1..n -> PresentModes] : n \in 0..MaxModes}

Details(capabilities, formats, presentModes) ==
    [capabilities |-> capabilities,
     formats |-> formats, formatCount |-> Len(formats),
     presentModes |-> presentModes, presentModeCount |-> Len(presentModes)]

BaseCapabilities ==
    [minImageCount |-> U32(2), maxImageCount |-> U32(0),
     currentExtent |-> [width |-> UINT32_MAX, height |-> UINT32_MAX],
     minImageExtent |-> [width |-> U32(1), height |-> U32(1)],
     maxImageExtent |-> [width |-> UINT32_MAX, height |-> UINT32_MAX]]

BaseFormats ==
    <<[format |-> VK_FORMAT_B8G8R8A8_UNORM,
       colorSpace |-> VK_COLOR_SPACE_SRGB_NONLINEAR_KHR]>>

BasePresentModes == <<VK_PRESENT_MODE_FIFO_KHR>>

\* The answers QuerySwapchainSupport may get: a usual answer, varied over
\* the whole sample of the image counts, of the widths, of the heights, of
\* the format lists and of the present-mode lists, one of the five at a
\* time (each choice of CreateSwapChain reads one of them only; the test of
\* the current extent is varied with both the widths and the heights).
DetailsProfiles ==
    {Details([BaseCapabilities EXCEPT !.minImageCount = lo, !.maxImageCount = hi],
             BaseFormats, BasePresentModes) :
        lo \in CountSample, hi \in CountSample}
    \cup
    {Details([BaseCapabilities EXCEPT
                 !.currentExtent = cur,
                 !.minImageExtent.width = w[1],
                 !.maxImageExtent.width = w[2]],
             BaseFormats, BasePresentModes) :
        cur \in CurrentExtents, w \in MinWidths \X MaxWidths}
    \cup
    {Details([BaseCapabilities EXCEPT
                 !.currentExtent = cur,
                 !.minImageExtent.height = h[1],
                 !.maxImageExtent.height = h[2]],
             BaseFormats, BasePresentModes) :
        cur \in CurrentExtents, h \in MinHeights \X MaxHeights}
    \cup
    {Details(BaseCapabilities, formats, BasePresentModes) : formats \in FormatLists}
    \cup
    {Details(BaseCapabilities, BaseFormats, modes) : modes \in PresentModeLists}

\* main()'s local before line 804 and after line 811: nothing reads it
EmptyDetails ==
    Details([minImageCount |-> U32(0), maxImageCount |-> U32(0),
             currentExtent |-> [width |-> U32(0), height |-> U32(0)],
             minImageExtent |-> [width |-> U32(0), height |-> U32(0)],
             maxImageExtent |-> [width |-> U32(0), height |-> U32(0)]],
            <<>>, <<>>)

(***************************************************************************)
(* The objects the program creates.                                        *)
(***************************************************************************)
Instance == <<"instance", 0>>
Surface == <<"surface", 0>>
Device == <<"device", 0>>
Swapchain == <<"swapchain", 0>>
RenderPass == <<"renderPass", 0>>
VertexShaderModule == <<"shaderModule", 0>>
FragmentShaderModule == <<"shaderModule", 1>>
PipelineLayout == <<"pipelineLayout", 0>>
Pipeline == <<"pipeline", 0>>
CommandPool == <<"commandPool", 0>>
ImageAvailableSemaphore == <<"semaphore", 0>>
RenderFinishedSemaphore == <<"semaphore", 1>>

VARIABLES
    pc,                     \* where main() is
    exitStatus,             \* "running", "EXIT_FAILURE" (FatalError), "0"
    reported,               \* the lists the platform gave the step that asked last
    physicalDevice,
    queueFamilyIndices,
    deviceCreateInfo,       \* the VkDeviceCreateInfo of every vkCreateDevice call
    swapchainDetails,       \* main()'s local of that name
    swapchainCreateInfo,    \* the create info of every vkCreateSwapchainKHR call
    swapchainImages,
    swapchainImageCount,
    swapchainImageFormat,
    swapchainExtent,
    swapChainImageViews,
    swapchainFramebuffers,
    commandBuffers,
    created,                \* every object created, in order, with what it needs
    destroyed,              \* every vkDestroy* call's object, in order
    i,                      \* the index of main()'s teardown loops
    frame,                  \* every call DrawFrame made on the swapchain and the
                            \* queues, in order, with its arguments
    gpu,                    \* the work handed to the queues: "none", "pending",
                            \* or "complete" once the device has carried it out
    event,                  \* what SDL_WaitEvent returned last (-1: not called
                            \* yet) and the type of main()'s local event
    failed                  \* every call the platform rejected, in order

vars ==
    <<pc, exitStatus, reported, physicalDevice, queueFamilyIndices,
      deviceCreateInfo, swapchainDetails, swapchainCreateInfo, swapchainImages,
      swapchainImageCount, swapchainImageFormat, swapchainExtent,
      swapChainImageViews, swapchainFramebuffers, commandBuffers, created,
      destroyed, i, frame, gpu, event, failed>>

selectorVars == <<reported, physicalDevice, queueFamilyIndices, deviceCreateInfo>>

swapchainVars ==
    <<swapchainDetails, swapchainCreateInfo, swapchainImages, swapchainImageCount,
      swapchainImageFormat, swapchainExtent>>

arrayVars == <<swapChainImageViews, swapchainFramebuffers, commandBuffers>>

frameVars == <<frame, gpu, event>>

\* by: the step whose lists these are
NothingReported ==
    [by |-> "none", devices |-> <<>>, extensions |-> <<>>, families |-> <<>>]

Init ==
    /\ pc = "CreateWindow"
    /\ exitStatus = "running"
    /\ reported = NothingReported
    /\ physicalDevice = VK_NULL_HANDLE
    /\ queueFamilyIndices = ZeroIndices
    /\ deviceCreateInfo = <<>>
    /\ swapchainDetails = EmptyDetails
    /\ swapchainCreateInfo = <<>>
    /\ swapchainImages = <<>>
    /\ swapchainImageCount = 0
    /\ swapchainImageFormat = "VK_FORMAT_UNDEFINED"
    /\ swapchainExtent = [width |-> U32(0), height |-> U32(0)]
    /\ swapChainImageViews = <<>>
    /\ swapchainFramebuffers = <<>>
    /\ commandBuffers = <<>>
    /\ created = <<>>
    /\ destroyed = <<>>
    /\ i = 0
    /\ frame = <<>>
    /\ gpu = [submission |-> "none", presentation |-> "none"]
    /\ event = [returned |-> -1, type |-> "unset"]
    /\ failed = <<>>

\* FatalError(...): exit(EXIT_FAILURE)
FatalError == pc' = "exit" /\ exitStatus' = "EXIT_FAILURE"

\* main() goes on to its next call
Goto(next) == pc' = next /\ exitStatus' = exitStatus

Create(obj, needs) == created' = Append(created, [obj |-> obj, needs |-> needs])

\* the platform's answer to a call whose result the code reads: accepted, or
\* rejected (a result other than VK_SUCCESS, SDL_FALSE, a NULL window)
Answer(call, accepted) ==
    failed' = IF accepted THEN failed ELSE Append(failed, call)

\* lines 791-797
CreateWindow ==
    /\ pc = "CreateWindow"
    /\ \E window \in BOOLEAN :
        /\ Answer("SDL_CreateWindow", window)
        /\ IF window THEN Goto("InitVulkanInstance") ELSE FatalError
    /\ UNCHANGED <<selectorVars, swapchainVars, arrayVars, created, destroyed, i, frameVars>>

InitVulkanInstance ==
    /\ pc = "InitVulkanInstance"
    /\ \E result \in {"VK_SUCCESS", "VK_ERROR"} :
        /\ Answer("vkCreateInstance", result = "VK_SUCCESS")
        /\ IF result = "VK_SUCCESS"
           THEN Create(Instance, {}) /\ Goto("CreateVulkanSurface")
           ELSE FatalError /\ UNCHANGED created
    /\ UNCHANGED <<selectorVars, swapchainVars, arrayVars, destroyed, i, frameVars>>

CreateVulkanSurface ==
    /\ pc = "CreateVulkanSurface"
    /\ \E ok \in BOOLEAN :
        /\ Answer("SDL_Vulkan_CreateSurface", ok)
        /\ IF ok
           THEN Create(Surface, {Instance}) /\ Goto("PickPhysicalVulkanDevice")
           ELSE FatalError /\ UNCHANGED created
    /\ UNCHANGED <<selectorVars, swapchainVars, arrayVars, destroyed, i, frameVars>>

PickPhysicalVulkanDevice ==
    /\ pc = "PickPhysicalVulkanDevice"
    /\ \E devices \in DeviceLists, properties \in ExtensionLists :
        IF Len(devices) = 0
        THEN /\ reported' = [NothingReported EXCEPT !.by = "PickPhysicalVulkanDevice",
                                                    !.devices = devices]
             /\ physicalDevice' = physicalDevice
             /\ FatalError
        ELSE /\ reported' = [NothingReported EXCEPT !.by = "PickPhysicalVulkanDevice",
                                                    !.devices = devices,
                                                    !.extensions = properties]
             /\ physicalDevice' = SelectDevice(devices, physicalDevice)
             /\ IF Len(properties) = 0 \/ ~HasRequiredExtensions(properties)
                THEN FatalError
                ELSE Goto("CreateLogicalDevice")
    /\ UNCHANGED <<queueFamilyIndices, deviceCreateInfo, swapchainVars, arrayVars,
                   created, destroyed, i, frameVars, failed>>

CreateLogicalDevice ==
    /\ pc = "CreateLogicalDevice"
    /\ \E families \in FamilyLists, result \in {"VK_SUCCESS", "VK_ERROR"} :
        LET indices == FindQueueFamilies(families)
        IN /\ reported' = [NothingReported EXCEPT !.by = "CreateLogicalDevice",
                                                  !.families = families]
           /\ queueFamilyIndices' = indices
           /\ IF ~indices.didSetGraphicsFamily \/ ~indices.didSetPresentFamily
              THEN FatalError /\ UNCHANGED <<deviceCreateInfo, created, failed>>
              ELSE /\ deviceCreateInfo' =
                        Append(deviceCreateInfo,
                               [physicalDevice |-> physicalDevice,
                                queueCreateInfoCount |-> QueueCreateInfoCount(indices),
                                pQueueCreateInfos |-> QueueCreateInfos(indices),
                                ppEnabledExtensionNames |-> requiredExtensions])
                   /\ Answer("vkCreateDevice", result = "VK_SUCCESS")
                   /\ IF result = "VK_SUCCESS"
                      THEN Create(Device, {Instance}) /\ Goto("QuerySwapchainSupport")
                      ELSE FatalError /\ UNCHANGED created
    /\ UNCHANGED <<physicalDevice, swapchainVars, arrayVars, destroyed, i, frameVars>>

\* lines 804-807: the query and main()'s check of the two counts
QuerySwapchainSupport ==
    /\ pc = "QuerySwapchainSupport"
    /\ \E details \in DetailsProfiles :
        /\ swapchainDetails' = details
        /\ Answer("QuerySwapchainSupport",
                  details.formatCount # 0 /\ details.presentModeCount # 0)
        /\ IF details.formatCount = 0 \/ details.presentModeCount = 0
           THEN FatalError
           ELSE Goto("CreateSwapChain")
    /\ reported' = NothingReported
    /\ UNCHANGED <<physicalDevice, queueFamilyIndices, deviceCreateInfo,
                   swapchainCreateInfo, swapchainImages,
                   swapchainImageCount, swapchainImageFormat, swapchainExtent,
                   arrayVars, created, destroyed, i, frameVars>>

CreateSwapChain ==
    /\ pc = "CreateSwapChain"
    /\ \E result \in {"VK_SUCCESS", "VK_ERROR"}, n \in 1..MaxImages :
        LET createInfo == SwapchainCreateInfo(swapchainDetails, queueFamilyIndices)
        IN /\ swapchainCreateInfo' = Append(swapchainCreateInfo, createInfo)
           /\ Answer("vkCreateSwapchainKHR", result = "VK_SUCCESS")
           /\ IF result = "VK_SUCCESS"
              THEN /\ Create(Swapchain, {Device, Surface})
                   /\ swapchainImageCount' = n
                   /\ swapchainImages' = [k \in 1..n |-> <<"image", k - 1>>]
                   /\ swapchainImageFormat' = createInfo.imageFormat
                   /\ swapchainExtent' = createInfo.imageExtent
                   /\ Goto("FreeSwapchainSupportDetails")
              ELSE /\ FatalError
                   /\ UNCHANGED <<created, swapchainImageCount, swapchainImages,
                                  swapchainImageFormat, swapchainExtent>>
    /\ UNCHANGED <<selectorVars, swapchainDetails, arrayVars, destroyed, i, frameVars>>

\* line 811: the local is dead from here on
FreeSwapchainSupportDetails ==
    /\ pc = "FreeSwapchainSupportDetails"
    /\ swapchainDetails' = EmptyDetails
    /\ Goto("CreateImageViews")
    /\ UNCHANGED <<selectorVars, swapchainCreateInfo, swapchainImages,
                   swapchainImageCount, swapchainImageFormat, swapchainExtent,
                   arrayVars, created, destroyed, i, frameVars, failed>>

ImageView(k) == <<"imageView", k>>

Framebuffer(k) == <<"framebuffer", k>>

CommandBuffer(k) == <<"commandBuffer", k>>

\* lines 420-438: the view CreateImageViews asks for at (0-based) index k
ImageViewCreateInfo(k) ==
    [handle |-> ImageView(k), image |-> swapchainImages[k + 1],
     format |-> swapchainImageFormat]

\* the loop of lines 419-443; made is the number of views created before a
\* vkCreateImageView was rejected (the image count: none was)
CreateImageViews ==
    /\ pc = "CreateImageViews"
    /\ \E made \in 0..swapchainImageCount :
        /\ swapChainImageViews' = [k \in 1..made |-> ImageViewCreateInfo(k - 1)]
        /\ created' = created \o
               [k \in 1..made |-> [obj |-> ImageView(k - 1), needs |-> {Device, Swapchain}]]
        /\ Answer("vkCreateImageView", made = swapchainImageCount)
        /\ IF made < swapchainImageCount THEN FatalError ELSE Goto("CreateRenderPass")
    /\ UNCHANGED <<selectorVars, swapchainVars, swapchainFramebuffers, commandBuffers,
                   destroyed, i, frameVars>>

CreateRenderPass ==
    /\ pc = "CreateRenderPass"
    /\ \E result \in {"VK_SUCCESS", "VK_ERROR"} :
        /\ Answer("vkCreateRenderPass", result = "VK_SUCCESS")
        /\ IF result = "VK_SUCCESS"
           THEN Create(RenderPass, {Device}) /\ Goto("CreateGraphicsPipeline")
           ELSE FatalError /\ UNCHANGED created
    /\ UNCHANGED <<selectorVars, swapchainVars, arrayVars, destroyed, i, frameVars>>

\* The four creations of CreateGraphicsPipeline, in the order of lines 513,
\* 514, 620, 643.  The shader modules are read by vkCreateGraphicsPipelines
\* only: the pipeline does not need them afterwards.
PipelineCreations ==
    <<[obj |-> VertexShaderModule, needs |-> {Device}],
      [obj |-> FragmentShaderModule, needs |-> {Device}],
      [obj |-> PipelineLayout, needs |-> {Device}],
      [obj |-> Pipeline, needs |-> {Device, PipelineLayout, RenderPass}]>>

\* the calls that make them
PipelineCalls ==
    <<"vkCreateShaderModule", "vkCreateShaderModule", "vkCreatePipelineLayout",
      "vkCreateGraphicsPipelines">>

\* made is the number of creations that succeeded before one was rejected;
\* after the fourth, lines 647-648 destroy the two shader modules
CreateGraphicsPipeline ==
    /\ pc = "CreateGraphicsPipeline"
    /\ \E made \in 0..Len(PipelineCreations) :
        /\ created' = created \o SubSeq(PipelineCreations, 1, made)
        /\ IF made < Len(PipelineCreations)
           THEN /\ Answer(PipelineCalls[made + 1], FALSE)
                /\ FatalError
                /\ UNCHANGED destroyed
           ELSE /\ Answer(PipelineCalls[Len(PipelineCalls)], TRUE)
                /\ destroyed' = destroyed \o <<FragmentShaderModule, VertexShaderModule>>
                /\ Goto("CreateFramebuffers")
    /\ UNCHANGED <<selectorVars, swapchainVars, arrayVars, i, frameVars>>

\* lines 655-667: the framebuffer asked for at (0-based) index k
FramebufferCreateInfo(k) ==
    [handle |-> Framebuffer(k), renderPass |-> RenderPass,
     attachmentCount |-> 1,
     pAttachments |-> <<swapChainImageViews[k + 1].handle>>,
     width |-> swapchainExtent.width, height |-> swapchainExtent.height]

CreateFramebuffers ==
    /\ pc = "CreateFramebuffers"
    /\ \E made \in 0..swapchainImageCount :
        /\ swapchainFramebuffers' = [k \in 1..made |-> FramebufferCreateInfo(k - 1)]
        /\ created' = created \o
               [k \in 1..made |->
                   [obj |-> Framebuffer(k - 1),
                    needs |-> {Device, RenderPass} \cup
                              {FramebufferCreateInfo(k - 1).pAttachments[a] :
                                   a \in 1..FramebufferCreateInfo(k - 1).attachmentCount}]]
        /\ Answer("vkCreateFramebuffer", made = swapchainImageCount)
        /\ IF made < swapchainImageCount THEN FatalError ELSE Goto("CreateCommandPool")
    /\ UNCHANGED <<selectorVars, swapchainVars, swapChainImageViews, commandBuffers,
                   destroyed, i, frameVars>>

\* CreateCommandPool without the test of line 682: a rejected
\* vkCreateCommandPool is passed over
CreateCommandPool_Unchecked ==
    /\ pc = "CreateCommandPool"
    /\ \E result \in {"VK_SUCCESS", "VK_ERROR"} :
        /\ Answer("vkCreateCommandPool", result = "VK_SUCCESS")
        /\ IF result = "VK_SUCCESS" THEN Create(CommandPool, {Device}) ELSE UNCHANGED created
        /\ Goto("CreateCommandBuffers")
    /\ UNCHANGED <<selectorVars, swapchainVars, arrayVars, destroyed, i, frameVars>>

CreateCommandPool ==
    /\ pc = "CreateCommandPool"
    /\ \E result \in {"VK_SUCCESS", "VK_ERROR"} :
        /\ Answer("vkCreateCommandPool", result = "VK_SUCCESS")
        /\ IF result = "VK_SUCCESS"
           THEN Create(CommandPool, {Device}) /\ Goto("CreateCommandBuffers")
           ELSE FatalError /\ UNCHANGED created
    /\ UNCHANGED <<selectorVars, swapchainVars, arrayVars, destroyed, i, frameVars>>

\* RecordedCommands with swapchainFramebuffers[0] in place of [i] at line 717
RecordedCommands_FirstFramebuffer(k) ==
    <<[cmd |-> "vkCmdBeginRenderPass", renderPass |-> RenderPass,
       framebuffer |-> swapchainFramebuffers[1].handle],
      [cmd |-> "vkCmdBindPipeline", pipeline |-> Pipeline],
      [cmd |-> "vkCmdDraw", vertexCount |-> 3, instanceCount |-> 1],
      [cmd |-> "vkCmdEndRenderPass"]>>

\* lines 714-731: what is recorded into the command buffer of index k
RecordedCommands(k) ==
    <<[cmd |-> "vkCmdBeginRenderPass", renderPass |-> RenderPass,
       framebuffer |-> swapchainFramebuffers[k + 1].handle],
      [cmd |-> "vkCmdBindPipeline", pipeline |-> Pipeline],
      [cmd |-> "vkCmdDraw", vertexCount |-> 3, instanceCount |-> 1],
      [cmd |-> "vkCmdEndRenderPass"]>>

\* The command buffer of index k once the loop of lines 701-736 has ended
\* (or was left by FatalError): done buffers are recorded; with stuck, the
\* one after them had its vkBeginCommandBuffer accepted and its
\* vkEndCommandBuffer rejected.
CommandBufferAfter(k, done, stuck) ==
    [handle |-> CommandBuffer(k), pool |-> CommandPool,
     state |-> IF k < done THEN "executable"
               ELSE IF k = done /\ stuck THEN "invalid"
               ELSE "initial",
     commands |-> IF k < done \/ (k = done /\ stuck) THEN RecordedCommands(k)
                  ELSE <<>>]

CreateCommandBuffers ==
    /\ pc = "CreateCommandBuffers"
    /\ \E allocated \in BOOLEAN, done \in 0..swapchainImageCount, stuck \in BOOLEAN :
        IF ~allocated
        THEN /\ Answer("vkAllocateCommandBuffers", FALSE)
             /\ FatalError
             /\ UNCHANGED commandBuffers
        ELSE /\ stuck => done < swapchainImageCount
             /\ Answer(IF stuck THEN "vkEndCommandBuffer" ELSE "vkBeginCommandBuffer",
                       done = swapchainImageCount)
             /\ commandBuffers' =
                    [k \in 1..swapchainImageCount |-> CommandBufferAfter(k - 1, done, stuck)]
             /\ IF done < swapchainImageCount THEN FatalError ELSE Goto("CreateSemaphores")
    /\ UNCHANGED <<selectorVars, swapchainVars, swapChainImageViews,
                   swapchainFramebuffers, created, destroyed, i, frameVars>>

SemaphoreCreations ==
    <<[obj |-> ImageAvailableSemaphore, needs |-> {Device}],
      [obj |-> RenderFinishedSemaphore, needs |-> {Device}]>>

CreateSemaphores ==
    /\ pc = "CreateSemaphores"
    /\ \E made \in 0..Len(SemaphoreCreations) :
        /\ created' = created \o SubSeq(SemaphoreCreations, 1, made)
        /\ Answer("vkCreateSemaphore", made = Len(SemaphoreCreations))
        /\ IF made < Len(SemaphoreCreations) THEN FatalError ELSE Goto("DrawFrame")
    /\ UNCHANGED <<selectorVars, swapchainVars, arrayVars, destroyed, i, frameVars>>

\* what vkAcquireNextImageKHR can return at line 755; with a timeout of
\* UINT64_MAX it waits, so never VK_TIMEOUT or VK_NOT_READY
AcquireResults == {"VK_SUCCESS", "VK_SUBOPTIMAL_KHR", "VK_ERROR_OUT_OF_DATE_KHR"}

\* the results with which vkAcquireNextImageKHR hands out an image: it writes
\* the image's index through pImageIndex and will signal the semaphore
Acquired(result) == result \in {"VK_SUCCESS", "VK_SUBOPTIMAL_KHR"}

\* The value of the local imageIndex after vkAcquireNextImageKHR: an index
\* of the swapchain when an image was acquired; otherwise the local was
\* never written, and holds any value: one inside the array of command
\* buffers, or one past its end.
ImageIndexAfter(result) ==
    IF Acquired(result)
    THEN 0..(swapchainImageCount - 1)
    ELSE 0..swapchainImageCount

\* &commandBuffers[imageIndex]: past the end of the array it is no command
\* buffer of this program
CommandBufferAt(imageIndex) ==
    IF imageIndex < Len(commandBuffers)
    THEN commandBuffers[imageIndex + 1].handle
    ELSE <<"out of bounds", imageIndex>>

\* line 755; written is what the call stored through &imageIndex
AcquireCall(result, imageIndex) ==
    [call |-> "vkAcquireNextImageKHR", result |-> result, swapchain |-> Swapchain,
     semaphore |-> ImageAvailableSemaphore, fence |-> VK_NULL_HANDLE,
     written |-> IF Acquired(result) THEN {imageIndex} ELSE {}]

\* lines 757-774
SubmitCall(result, imageIndex) ==
    [call |-> "vkQueueSubmit", result |-> result, queue |-> "graphicsQueue",
     pWaitSemaphores |-> <<ImageAvailableSemaphore>>,
     pWaitDstStageMask |-> <<"VK_PIPELINE_STAGE_COLOR_ATTACHMENT_OUTPUT_BIT">>,
     pCommandBuffers |-> <<CommandBufferAt(imageIndex)>>,
     pSignalSemaphores |-> <<RenderFinishedSemaphore>>,
     fence |-> VK_NULL_HANDLE]

\* lines 776-787; the result of the call is dropped
PresentCall(imageIndex) ==
    [call |-> "vkQueuePresentKHR", queue |-> "presentQueue",
     pWaitSemaphores |-> <<RenderFinishedSemaphore>>,
     pSwapchains |-> <<Swapchain>>,
     pImageIndices |-> <<imageIndex>>]

\* The result of the acquire is not read.  The accepted submission and the
\* present are work the device carries out later.
DrawFrame ==
    /\ pc = "DrawFrame"
    /\ \E result \in AcquireResults, submit \in {"VK_SUCCESS", "VK_ERROR"} :
        \E imageIndex \in ImageIndexAfter(result) :
            /\ Answer("vkQueueSubmit", submit = "VK_SUCCESS")
            /\ IF submit = "VK_SUCCESS"
               THEN /\ frame' = frame \o <<AcquireCall(result, imageIndex),
                                           SubmitCall(submit, imageIndex),
                                           PresentCall(imageIndex)>>
                    /\ gpu' = [submission |-> "pending", presentation |-> "pending"]
                    /\ Goto("SDL_WaitEvent")
               ELSE /\ frame' = frame \o <<AcquireCall(result, imageIndex),
                                           SubmitCall(submit, imageIndex)>>
                    /\ gpu' = gpu
                    /\ FatalError
    /\ UNCHANGED <<selectorVars, swapchainVars, arrayVars, created, destroyed, i, event>>

\* a semaphore is signalled by the acquire that handed out an image
ImageAvailableSignalled ==
    \E k \in 1..Len(frame) :
        frame[k].call = "vkAcquireNextImageKHR" /\ Acquired(frame[k].result)

\* The device, running beside main(): the graphics queue executes the
\* submitted command buffer once the semaphore it waits on is signalled.
\* Nothing in lines 753-851 waits for it.
GraphicsQueueExecutes ==
    /\ pc # "exit"
    /\ gpu.submission = "pending"
    /\ ImageAvailableSignalled
    /\ gpu' = [gpu EXCEPT !.submission = "complete"]
    /\ UNCHANGED <<pc, exitStatus, selectorVars, swapchainVars, arrayVars, created,
                   destroyed, i, frame, event, failed>>

\* the present waits on the semaphore the submission signals
PresentQueuePresents ==
    /\ pc # "exit"
    /\ gpu.presentation = "pending"
    /\ gpu.submission = "complete"
    /\ gpu' = [gpu EXCEPT !.presentation = "complete"]
    /\ UNCHANGED <<pc, exitStatus, selectorVars, swapchainVars, arrayVars, created,
                   destroyed, i, frame, event, failed>>

\* SDL_WaitEvent without the test of line 826: any event ends the loop
SDL_WaitEvent_AnyEventBreaks ==
    /\ pc = "SDL_WaitEvent"
    /\ \E returned \in {0, 1}, type \in {"SDL_QUIT", "other"} :
        /\ event' = IF returned = 0 THEN [event EXCEPT !.returned = 0]
                    ELSE [returned |-> 1, type |-> type]
        /\ Goto("vkDestroySemaphore")
    /\ UNCHANGED <<selectorVars, swapchainVars, arrayVars, created, destroyed, i,
                   frame, gpu, failed>>

\* lines 825-829, one call of SDL_WaitEvent: it returns 1 with an event
\* stored in the local, or 0 on an error, which ends the loop as SDL_QUIT
\* does
SDL_WaitEvent ==
    /\ pc = "SDL_WaitEvent"
    /\ \E returned \in {0, 1}, type \in {"SDL_QUIT", "other"} :
        IF returned = 0
        THEN /\ event' = [event EXCEPT !.returned = 0]
             /\ Goto("vkDestroySemaphore")
        ELSE /\ event' = [returned |-> 1, type |-> type]
             /\ IF type = "SDL_QUIT"
                THEN Goto("vkDestroySemaphore")
                ELSE Goto("SDL_WaitEvent")
    /\ UNCHANGED <<selectorVars, swapchainVars, arrayVars, created, destroyed, i,
                   frame, gpu, failed>>

Destroy(obj) == destroyed' = Append(destroyed, obj)

\* lines 831-832
DestroySemaphores ==
    /\ pc = "vkDestroySemaphore"
    /\ destroyed' = destroyed \o <<RenderFinishedSemaphore, ImageAvailableSemaphore>>
    /\ Goto("vkDestroyCommandPool")
    /\ UNCHANGED <<selectorVars, swapchainVars, arrayVars, created, i, frameVars, failed>>

\* line 834
DestroyCommandPool ==
    /\ pc = "vkDestroyCommandPool"
    /\ Destroy(CommandPool)
    /\ i' = 0
    /\ Goto("vkDestroyFramebuffer")
    /\ UNCHANGED <<selectorVars, swapchainVars, arrayVars, created, frameVars, failed>>

\* lines 836-838, one iteration
DestroyFramebuffer ==
    /\ pc = "vkDestroyFramebuffer"
    /\ i < swapchainImageCount
    /\ Destroy(swapchainFramebuffers[i + 1].handle)
    /\ i' = i + 1
    /\ Goto("vkDestroyFramebuffer")
    /\ UNCHANGED <<selectorVars, swapchainVars, arrayVars, created, frameVars, failed>>

\* lines 840-842, once the loop above has ended
DestroyPipeline ==
    /\ pc = "vkDestroyFramebuffer"
    /\ ~(i < swapchainImageCount)
    /\ destroyed' = destroyed \o <<Pipeline, PipelineLayout, RenderPass>>
    /\ i' = 0
    /\ Goto("vkDestroyImageView")
    /\ UNCHANGED <<selectorVars, swapchainVars, arrayVars, created, frameVars, failed>>

\* lines 844-846, one iteration
DestroyImageView ==
    /\ pc = "vkDestroyImageView"
    /\ i < swapchainImageCount
    /\ Destroy(swapChainImageViews[i + 1].handle)
    /\ i' = i + 1
    /\ Goto("vkDestroyImageView")
    /\ UNCHANGED <<selectorVars, swapchainVars, arrayVars, created, frameVars, failed>>

\* DestroySwapchainToInstance with the device destroyed before the swapchain
DestroySwapchainToInstance_DeviceFirst ==
    /\ pc = "vkDestroyImageView"
    /\ ~(i < swapchainImageCount)
    /\ destroyed' = destroyed \o <<Device, Swapchain, Surface, Instance>>
    /\ pc' = "exit"
    /\ exitStatus' = "0"
    /\ UNCHANGED <<selectorVars, swapchainVars, arrayVars, created, i, frameVars, failed>>

\* lines 848-855, once the loop above has ended: main() returns 0
DestroySwapchainToInstance ==
    /\ pc = "vkDestroyImageView"
    /\ ~(i < swapchainImageCount)
    /\ destroyed' = destroyed \o <<Swapchain, Surface, Device, Instance>>
    /\ pc' = "exit"
    /\ exitStatus' = "0"
    /\ UNCHANGED <<selectorVars, swapchainVars, arrayVars, created, i, frameVars, failed>>

Next ==
    \/ CreateWindow
    \/ InitVulkanInstance
    \/ CreateVulkanSurface
    \/ PickPhysicalVulkanDevice
    \/ CreateLogicalDevice
    \/ QuerySwapchainSupport
    \/ CreateSwapChain
    \/ FreeSwapchainSupportDetails
    \/ CreateImageViews
    \/ CreateRenderPass
    \/ CreateGraphicsPipeline
    \/ CreateFramebuffers
    \/ CreateCommandPool
    \/ CreateCommandBuffers
    \/ CreateSemaphores
    \/ DrawFrame
    \/ GraphicsQueueExecutes
    \/ PresentQueuePresents
    \/ SDL_WaitEvent
    \/ DestroySemaphores
    \/ DestroyCommandPool
    \/ DestroyFramebuffer
    \/ DestroyPipeline
    \/ DestroyImageView
    \/ DestroySwapchainToInstance

Spec == Init /\ [][Next]_vars

(***************************************************************************)
(* The claims.                                                             *)
(***************************************************************************)

\* CreateLogicalDevice has run; reported.families is the queue-family list
\* of the chosen physical device it scanned
FamiliesScanned == reported.by = "CreateLogicalDevice"

GraphicsFamilies == {k \in 1..Len(reported.families) : reported.families[k].graphics}

PresentFamilies == {k \in 1..Len(reported.families) : reported.families[k].present}

Highest(S) == CHOOSE k \in S : \A other \in S : other <= k

\* C1: for every queue-family list, if no family exposes graphics capability
\* or no family reports presentation support, CreateLogicalDevice ends in a
\* fatal error (exit with a nonzero status) and vkCreateDevice is never
\* called.
C1_MissingRoleIsFatal ==
    (FamiliesScanned /\ (GraphicsFamilies = {} \/ PresentFamilies = {}))
        => (pc = "exit" /\ exitStatus = "EXIT_FAILURE" /\ deviceCreateInfo = <<>>)

\* C2: for every non-empty queue-family list, after FindQueueFamilies the
\* recorded graphics family is the highest index whose family exposes
\* graphics capability and the recorded present family is the highest index
\* whose family reports presentation support; a family lacking the
\* capability never becomes the recorded index for that role.
C2_LastCapableFamilyWins ==
    (FamiliesScanned /\ Len(reported.families) > 0)
        => /\ GraphicsFamilies # {}
                => /\ queueFamilyIndices.didSetGraphicsFamily
                   /\ queueFamilyIndices.graphicsFamily + 1 = Highest(GraphicsFamilies)
           /\ PresentFamilies # {}
                => /\ queueFamilyIndices.didSetPresentFamily
                   /\ queueFamilyIndices.presentFamily + 1 = Highest(PresentFamilies)
           /\ queueFamilyIndices.didSetGraphicsFamily
                => queueFamilyIndices.graphicsFamily + 1 \in GraphicsFamilies
           /\ queueFamilyIndices.didSetPresentFamily
                => queueFamilyIndices.presentFamily + 1 \in PresentFamilies

\* main() has returned 0: the teardown of lines 831-851 has run to its end
NormalExit == pc = "exit" /\ exitStatus = "0"

CreatedObjects == {created[k].obj : k \in 1..Len(created)}

TimesIn(log, obj) == Cardinality({k \in 1..Len(log) : log[k] = obj})

PlaceIn(log, obj) == CHOOSE k \in 1..Len(log) : log[k] = obj

\* the objects the teardown has to destroy, for an image count of n
OwnedObjects(n) ==
    {RenderFinishedSemaphore, ImageAvailableSemaphore, CommandPool, Pipeline,
     PipelineLayout, RenderPass, Swapchain, Surface, Device, Instance}
    \cup {<<"framebuffer", k>> : k \in 0..(n - 1)}
    \cup {<<"imageView", k>> : k \in 0..(n - 1)}

\* C3: for every negotiated image count, when the process exits after normal
\* teardown every object the program created (both semaphores, the command
\* pool, N framebuffers, the pipeline, its layout, the render pass, N image
\* views, swapchain, surface, device, instance) has been destroyed exactly
\* once, nothing else was destroyed, and each object was destroyed before
\* every object it was created from or depends on.
C3_TeardownOnceInReverseOrder ==
    NormalExit
        => /\ swapchainImageCount \in 1..MaxImages
           /\ OwnedObjects(swapchainImageCount) \subseteq CreatedObjects
           /\ \A obj \in CreatedObjects :
                TimesIn(destroyed, obj) = 1
           /\ \A k \in 1..Len(created) :
                TimesIn([j \in 1..Len(created) |-> created[j].obj], created[k].obj) = 1
           /\ \A k \in 1..Len(destroyed) : destroyed[k] \in CreatedObjects
           /\ \A k \in 1..Len(created) : \A needed \in created[k].needs :
                /\ needed \in CreatedObjects
                /\ PlaceIn(destroyed, created[k].obj) < PlaceIn(destroyed, needed)

C3_Witness ==
    /\ NormalExit
    /\ swapchainImageCount = 3
    /\ Len(destroyed) = Cardinality(OwnedObjects(3)) + 2

\* CreateCommandBuffers has returned
CommandBuffersRecorded ==
    pc \in {"CreateSemaphores", "DrawFrame", "SDL_WaitEvent", "vkDestroySemaphore",
            "vkDestroyCommandPool", "vkDestroyFramebuffer", "vkDestroyImageView"}
        \/ NormalExit

\* the framebuffers the commands of a command buffer refer to
FramebuffersOf(buffer) ==
    {buffer.commands[c].framebuffer :
        c \in {c \in 1..Len(buffer.commands) :
                  buffer.commands[c].cmd = "vkCmdBeginRenderPass"}}

\* C4: after CreateCommandBuffers the image, image-view, framebuffer and
\* command-buffer sequences all have the length of the image count read back
\* from the swapchain, and at every index view i is created on image i,
\* framebuffer i wraps view i only, and command buffer i begins its render
\* pass on framebuffer i and references no other framebuffer.
C4_ParallelSequences ==
    CommandBuffersRecorded
        => /\ Len(swapchainImages) = swapchainImageCount
           /\ Len(swapChainImageViews) = swapchainImageCount
           /\ Len(swapchainFramebuffers) = swapchainImageCount
           /\ Len(commandBuffers) = swapchainImageCount
           /\ \A k \in 1..swapchainImageCount :
                /\ swapChainImageViews[k].image = swapchainImages[k]
                /\ swapchainFramebuffers[k].pAttachments = <<swapChainImageViews[k].handle>>
                /\ commandBuffers[k].commands[1].cmd = "vkCmdBeginRenderPass"
                /\ FramebuffersOf(commandBuffers[k]) = {swapchainFramebuffers[k].handle}
           /\ \A k, j \in 1..swapchainImageCount :
                k # j => /\ swapchainImages[k] # swapchainImages[j]
                         /\ swapChainImageViews[k].handle # swapChainImageViews[j].handle
                         /\ swapchainFramebuffers[k].handle # swapchainFramebuffers[j].handle
                         /\ commandBuffers[k].handle # commandBuffers[j].handle

C4_Witness ==
    /\ pc = "CreateSemaphores"
    /\ swapchainImageCount = 3
    /\ FramebuffersOf(commandBuffers[3]) = {<<"framebuffer", 2>>}

\* C5: if the graphics and present family indices are equal, device creation
\* passes exactly one queue-create entry and swapchain creation uses
\* exclusive sharing with zero queue-family indices; if they differ, device
\* creation passes exactly two entries, one per family, and swapchain
\* creation uses concurrent sharing listing exactly those two indices.
C5_QueueEntriesAndSharing ==
    LET g == queueFamilyIndices.graphicsFamily
        p == queueFamilyIndices.presentFamily
        FamilyOf(info, k) == info.pQueueCreateInfos[k].queueFamilyIndex
    IN /\ \A c \in 1..Len(deviceCreateInfo) :
            LET info == deviceCreateInfo[c]
            IN /\ Len(info.pQueueCreateInfos) = info.queueCreateInfoCount
               /\ g = p => info.queueCreateInfoCount = 1 /\ FamilyOf(info, 1) = g
               /\ g # p => /\ info.queueCreateInfoCount = 2
                           /\ FamilyOf(info, 1) = g
                           /\ FamilyOf(info, 2) = p
       /\ \A c \in 1..Len(swapchainCreateInfo) :
            LET info == swapchainCreateInfo[c]
            IN /\ Len(info.pQueueFamilyIndices) = info.queueFamilyIndexCount
               /\ g = p => /\ info.imageSharingMode = "VK_SHARING_MODE_EXCLUSIVE"
                           /\ info.queueFamilyIndexCount = 0
               /\ g # p => /\ info.imageSharingMode = "VK_SHARING_MODE_CONCURRENT"
                           /\ info.queueFamilyIndexCount = 2
                           /\ info.pQueueFamilyIndices = <<g, p>>

C5_Witness ==
    /\ Len(deviceCreateInfo) = 1
    /\ Len(swapchainCreateInfo) = 1
    /\ queueFamilyIndices.graphicsFamily # queueFamilyIndices.presentFamily
    /\ swapchainCreateInfo[1].imageSharingMode = "VK_SHARING_MODE_CONCURRENT"
    /\ deviceCreateInfo[1].queueCreateInfoCount = 2

\* PickPhysicalVulkanDevice has run; reported holds the device list and the
\* extension list of the chosen device it was given
DevicesEnumerated == reported.by = "PickPhysicalVulkanDevice"

ReportedExtensions == {reported.extensions[k] : k \in 1..Len(reported.extensions)}

\* C6: for every chosen physical device and every set of extensions it
\* reports, if a required extension (swapchain support) is absent,
\* PickPhysicalVulkanDevice ends in a fatal error, vkCreateDevice is never
\* attempted in that run and no other enumerated device is tried: nothing
\* at all runs after the mismatch.
C6_MissingExtensionIsFatal ==
    (DevicesEnumerated /\ Len(reported.devices) > 0
        /\ "VK_KHR_swapchain" \notin ReportedExtensions)
        => /\ pc = "exit"
           /\ exitStatus = "EXIT_FAILURE"
           /\ deviceCreateInfo = <<>>
           /\ ~ENABLED Next

C6_Witness ==
    /\ DevicesEnumerated
    /\ Len(reported.devices) = 2
    /\ reported.extensions = <<"VK_KHR_maintenance1", "VK_KHR_maintenance1">>
    /\ exitStatus = "EXIT_FAILURE"

DiscreteDevices == {k \in 1..Len(reported.devices) : reported.devices[k].discrete}

Lowest(S) == CHOOSE k \in S : \A other \in S : k <= other

\* C7: for every non-empty device list, the selected physical device is the
\* lowest-index discrete GPU if there is one and enumeration index 0
\* otherwise; for an empty list the selector fails fatally and selects
\* nothing.
C7_FirstDiscreteElseFirst ==
    DevicesEnumerated
        => IF Len(reported.devices) = 0
           THEN /\ pc = "exit"
                /\ exitStatus = "EXIT_FAILURE"
                /\ physicalDevice = VK_NULL_HANDLE
           ELSE IF DiscreteDevices # {}
           THEN physicalDevice = reported.devices[Lowest(DiscreteDevices)].handle
           ELSE physicalDevice = reported.devices[1].handle

C7_Witness ==
    /\ DevicesEnumerated
    /\ Len(reported.devices) = 2
    /\ ~reported.devices[1].discrete
    /\ reported.devices[2].discrete
    /\ physicalDevice = reported.devices[2].handle

\* CreateSwapChain has run on the details main() still holds
SwapchainNegotiated ==
    pc = "FreeSwapchainSupportDetails" /\ Len(swapchainCreateInfo) = 1

Capabilities == swapchainDetails.capabilities

RequestedCount == swapchainCreateInfo[1].minImageCount

\* n + 1 = m as numbers (n + 1 does not wrap)
IsSuccessor(m, n) == n # UINT32_MAX /\ m = U32Inc(n)

\* C8 as stated: for all 32-bit minImageCount and maxImageCount the requested
\* image count equals minImageCount + 1, capped to maxImageCount when that is
\* nonzero; it never exceeds a nonzero maxImageCount, is never below
\* minImageCount, and is 2 for (min 2, max 2) and for (min 1, max 0).
C8_AsStated ==
    SwapchainNegotiated
        => LET lo == Capabilities.minImageCount
               hi == Capabilities.maxImageCount
           IN /\ IF hi # U32(0) /\ (lo = UINT32_MAX \/ U32Gt(U32Inc(lo), hi))
                 THEN RequestedCount = hi
                 ELSE IsSuccessor(RequestedCount, lo)
              /\ hi # U32(0) => U32Le(RequestedCount, hi)
              /\ U32Le(lo, RequestedCount)
              /\ (lo = U32(2) /\ hi = U32(2)) => RequestedCount = U32(2)
              /\ (lo = U32(1) /\ hi = U32(0)) => RequestedCount = U32(2)

\* C8, amended: the requested image count equals minImageCount + 1 modulo
\* 2^32, capped to maxImageCount when that is nonzero; it never exceeds a
\* nonzero maxImageCount; it is not below minImageCount whenever
\* minImageCount < 2^32 - 1 and maxImageCount is zero or at least
\* minImageCount; it is 2 for (min 2, max 2) and for (min 1, max 0).
C8_RequestedImageCount ==
    SwapchainNegotiated
        => LET lo == Capabilities.minImageCount
               hi == Capabilities.maxImageCount
           IN /\ hi = U32(0) => RequestedCount = U32Inc(lo)
              /\ hi # U32(0) => RequestedCount = MIN(U32Inc(lo), hi)
              /\ hi # U32(0) => U32Le(RequestedCount, hi)
              /\ (lo # UINT32_MAX /\ (hi = U32(0) \/ U32Le(lo, hi)))
                    => U32Le(lo, RequestedCount)
              /\ (lo = U32(2) /\ hi = U32(2)) => RequestedCount = U32(2)
              /\ (lo = U32(1) /\ hi = U32(0)) => RequestedCount = U32(2)

C8_Witness ==
    /\ SwapchainNegotiated
    /\ Capabilities.minImageCount = U32(2)
    /\ Capabilities.maxImageCount = U32(2)
    /\ RequestedCount = U32(2)

ChosenExtent == swapchainCreateInfo[1].imageExtent

\* C9: when the current extent is the undefined sentinel (as the code tests
\* it: its width is UINT32_MAX) and minImageExtent <= maxImageExtent in both
\* components, the extent chosen for the request (800, 600) lies within
\* [min, max] in both components, and is (800, 600) when that lies within
\* the bounds; when the current extent is not the sentinel it is returned
\* verbatim.
C9_ExtentClamped ==
    SwapchainNegotiated
        => LET cur == Capabilities.currentExtent
               lo == Capabilities.minImageExtent
               hi == Capabilities.maxImageExtent
               Within(v, a, b) == U32Le(a, v) /\ U32Le(v, b)
           IN /\ (cur.width = UINT32_MAX
                    /\ U32Le(lo.width, hi.width) /\ U32Le(lo.height, hi.height))
                    => /\ Within(ChosenExtent.width, lo.width, hi.width)
                       /\ Within(ChosenExtent.height, lo.height, hi.height)
                       /\ (Within(U32(800), lo.width, hi.width)
                            /\ Within(U32(600), lo.height, hi.height))
                            => ChosenExtent = [width |-> U32(800), height |-> U32(600)]
              /\ cur.width # UINT32_MAX => ChosenExtent = cur
              /\ swapchainExtent = ChosenExtent

C9_Witness ==
    /\ SwapchainNegotiated
    /\ Capabilities.currentExtent.width = UINT32_MAX
    /\ Capabilities.maxImageExtent.width = U32(799)
    /\ ChosenExtent = [width |-> U32(799), height |-> U32(600)]

ChosenFormat ==
    [format |-> swapchainCreateInfo[1].imageFormat,
     colorSpace |-> swapchainCreateInfo[1].imageColorSpace]

BgraSrgbEntries ==
    {k \in 1..Len(swapchainDetails.formats) :
        /\ swapchainDetails.formats[k].format = "VK_FORMAT_B8G8R8A8_UNORM"
        /\ swapchainDetails.formats[k].colorSpace = "VK_COLOR_SPACE_SRGB_NONLINEAR_KHR"}

\* C10: for every non-empty list of supported (format, color space) pairs,
\* ChooseSwapSurfaceFormat returns the first entry that is 8-bit BGRA with
\* the sRGB non-linear color space if the list has one, and list entry 0
\* otherwise; the pair returned is always a member of the list.
C10_FormatChoice ==
    SwapchainNegotiated
        => /\ Len(swapchainDetails.formats) > 0
           /\ BgraSrgbEntries # {}
                => ChosenFormat = swapchainDetails.formats[Lowest(BgraSrgbEntries)]
           /\ BgraSrgbEntries = {} => ChosenFormat = swapchainDetails.formats[1]
           /\ \E k \in 1..Len(swapchainDetails.formats) :
                ChosenFormat = swapchainDetails.formats[k]
           /\ swapchainImageFormat = ChosenFormat.format

C10_Witness ==
    /\ SwapchainNegotiated
    /\ Len(swapchainDetails.formats) = 2
    /\ BgraSrgbEntries = {}
    /\ swapchainDetails.formats[1] # swapchainDetails.formats[2]
    /\ ChosenFormat = swapchainDetails.formats[1]

SupportedPresentModes ==
    {swapchainDetails.presentModes[k] : k \in 1..Len(swapchainDetails.presentModes)}

ChosenPresentMode == swapchainCreateInfo[1].presentMode

\* C11: for every list of supported present modes, ChoosePresentMode returns
\* mailbox if and only if mailbox appears in the list, and returns FIFO for
\* every list lacking mailbox, whatever other modes the list contains.
C11_MailboxElseFifo ==
    SwapchainNegotiated
        => /\ ChosenPresentMode = "VK_PRESENT_MODE_MAILBOX_KHR"
                <=> "VK_PRESENT_MODE_MAILBOX_KHR" \in SupportedPresentModes
           /\ "VK_PRESENT_MODE_MAILBOX_KHR" \notin SupportedPresentModes
                => ChosenPresentMode = "VK_PRESENT_MODE_FIFO_KHR"

\* a list without mailbox and without FIFO: FIFO is chosen all the same
C11_Witness ==
    /\ SwapchainNegotiated
    /\ SupportedPresentModes = {"VK_PRESENT_MODE_IMMEDIATE_KHR"}
    /\ ChosenPresentMode = "VK_PRESENT_MODE_FIFO_KHR"

\* the calls whose rejection main() and its callees test, in the order of
\* the bring-up, and the kind of object each makes
CheckedCalls ==
    <<"SDL_CreateWindow", "vkCreateInstance", "SDL_Vulkan_CreateSurface",
      "vkCreateDevice", "QuerySwapchainSupport", "vkCreateSwapchainKHR",
      "vkCreateImageView", "vkCreateRenderPass", "vkCreateShaderModule",
      "vkCreatePipelineLayout", "vkCreateGraphicsPipelines", "vkCreateFramebuffer",
      "vkCreateCommandPool", "vkAllocateCommandBuffers", "vkBeginCommandBuffer",
      "vkEndCommandBuffer", "vkCreateSemaphore", "vkQueueSubmit">>

CallMaking(kind) ==
    CASE kind = "instance" -> "vkCreateInstance"
      [] kind = "surface" -> "SDL_Vulkan_CreateSurface"
      [] kind = "device" -> "vkCreateDevice"
      [] kind = "swapchain" -> "vkCreateSwapchainKHR"
      [] kind = "imageView" -> "vkCreateImageView"
      [] kind = "renderPass" -> "vkCreateRenderPass"
      [] kind = "shaderModule" -> "vkCreateShaderModule"
      [] kind = "pipelineLayout" -> "vkCreatePipelineLayout"
      [] kind = "pipeline" -> "vkCreateGraphicsPipelines"
      [] kind = "framebuffer" -> "vkCreateFramebuffer"
      [] kind = "commandPool" -> "vkCreateCommandPool"
      [] kind = "semaphore" -> "vkCreateSemaphore"

OrderOf(call) == CHOOSE k \in 1..Len(CheckedCalls) : CheckedCalls[k] = call

FrameCalls == [k \in 1..Len(frame) |-> frame[k].call]

\* C12: whenever a creation, recording or submission call signals failure
\* (window, instance, surface, device, swapchain, image view, shader module,
\* render pass, pipeline layout, pipeline, framebuffer, command pool,
\* command-buffer allocate/begin/end, semaphore, queue submit), or the
\* format list or present-mode list is empty, the process terminates at once
\* with a nonzero exit status: it is the only failure of the run, nothing
\* can happen after it, no object of a later bring-up step exists, no
\* command buffer was allocated by a later step, nothing was presented or
\* handed to the device, the event loop was not entered and no teardown
\* step ran.
C12_FailureEndsTheProcess ==
    failed # <<>>
        => /\ Len(failed) = 1
           /\ \E k \in 1..Len(CheckedCalls) : CheckedCalls[k] = failed[1]
           /\ pc = "exit"
           /\ exitStatus = "EXIT_FAILURE"
           /\ ~ENABLED Next
           /\ \A k \in 1..Len(created) :
                OrderOf(CallMaking(created[k].obj[1])) <= OrderOf(failed[1])
           /\ commandBuffers # <<>>
                => OrderOf(failed[1]) >= OrderOf("vkBeginCommandBuffer")
           /\ FrameCalls = IF failed[1] = "vkQueueSubmit"
                           THEN <<"vkAcquireNextImageKHR", "vkQueueSubmit">>
                           ELSE <<>>
           /\ gpu = [submission |-> "none", presentation |-> "none"]
           /\ event.returned = -1
           /\ \A k \in 1..Len(destroyed) :
                destroyed[k] \in {VertexShaderModule, FragmentShaderModule}

\* the last call that can be rejected: the queue submit of DrawFrame
C12_Witness ==
    /\ failed = <<"vkQueueSubmit">>
    /\ pc = "exit"
    /\ exitStatus = "EXIT_FAILURE"
    /\ Len(created) > 0

\* DrawFrame has returned to main()
DrawFrameReturned ==
    pc \in {"SDL_WaitEvent", "vkDestroySemaphore", "vkDestroyCommandPool",
            "vkDestroyFramebuffer", "vkDestroyImageView"}
        \/ NormalExit

\* how often the calls of the frame signal and wait on a semaphore
SignalsOf(semaphore) ==
    Cardinality({k \in 1..Len(frame) :
        \/ /\ frame[k].call = "vkAcquireNextImageKHR"
           /\ frame[k].semaphore = semaphore
        \/ /\ frame[k].call = "vkQueueSubmit"
           /\ \E s \in 1..Len(frame[k].pSignalSemaphores) :
                frame[k].pSignalSemaphores[s] = semaphore})

WaitsOn(semaphore) ==
    Cardinality({k \in 1..Len(frame) :
        /\ frame[k].call \in {"vkQueueSubmit", "vkQueuePresentKHR"}
        /\ \E s \in 1..Len(frame[k].pWaitSemaphores) :
                frame[k].pWaitSemaphores[s] = semaphore})

\* C13: in every run that completes bring-up DrawFrame performs exactly one
\* acquire, then exactly one graphics-queue submit, then exactly one present,
\* and never again: the submit is of the command buffer whose index is the
\* image index the acquire handed out, waits on "image acquired" at the
\* color-attachment-output stage and signals "render finished"; the present
\* is of that same image index and waits on "render finished"; each of the
\* two semaphores is signalled at most once and waited on at most once.
C13_OneAcquireSubmitPresent ==
    /\ ~DrawFrameReturned /\ failed = <<>> => frame = <<>>
    /\ DrawFrameReturned
        => /\ FrameCalls = <<"vkAcquireNextImageKHR", "vkQueueSubmit", "vkQueuePresentKHR">>
           /\ frame[1].semaphore = ImageAvailableSemaphore
           /\ frame[2].queue = "graphicsQueue"
           /\ frame[2].pWaitSemaphores = <<ImageAvailableSemaphore>>
           /\ frame[2].pWaitDstStageMask = <<"VK_PIPELINE_STAGE_COLOR_ATTACHMENT_OUTPUT_BIT">>
           /\ frame[2].pSignalSemaphores = <<RenderFinishedSemaphore>>
           /\ frame[3].pWaitSemaphores = <<RenderFinishedSemaphore>>
           /\ frame[3].pSwapchains = <<Swapchain>>
           /\ \E acquired \in 0..(swapchainImageCount - 1) :
                /\ frame[1].written = {acquired}
                /\ frame[2].pCommandBuffers = <<commandBuffers[acquired + 1].handle>>
                /\ frame[3].pImageIndices = <<acquired>>
           /\ \A semaphore \in {ImageAvailableSemaphore, RenderFinishedSemaphore} :
                SignalsOf(semaphore) <= 1 /\ WaitsOn(semaphore) <= 1

\* the objects the claim lists: what teardown destroys before the surface
\* and the instance
DeviceObjects ==
    {RenderFinishedSemaphore, ImageAvailableSemaphore, CommandPool, Pipeline,
     RenderPass, Swapchain, Device}
    \cup {<<"framebuffer", k>> : k \in 0..(MaxImages - 1)}
    \cup {<<"imageView", k>> : k \in 0..(MaxImages - 1)}

Outstanding == gpu.submission = "pending" \/ gpu.presentation = "pending"

\* C14: with the device executing the submitted command buffer and the
\* present beside the control thread, teardown never destroys a semaphore,
\* the command pool, a framebuffer, the pipeline, the render pass, an image
\* view, the swapchain or the device while the submitted command buffer or
\* its present is outstanding: when shutdown is initiated nothing is
\* outstanding.
C14_NoTeardownWhileOutstanding ==
    /\ pc = "vkDestroySemaphore" => ~Outstanding
    /\ (\E k \in 1..Len(destroyed) : destroyed[k] \in DeviceObjects) => ~Outstanding

TeardownBegun ==
    \/ pc \in {"vkDestroyCommandPool", "vkDestroyFramebuffer", "vkDestroyImageView"}
    \/ NormalExit
    \/ \E k \in 1..Len(destroyed) : destroyed[k] \in OwnedObjects(MaxImages)

PresentReturned ==
    \E k \in 1..Len(frame) : frame[k].call = "vkQueuePresentKHR"

QuitReceived == event.returned = 1 /\ event.type = "SDL_QUIT"

\* C15 as stated: the first teardown step (the destruction of the "render
\* finished" semaphore) occurs only after the present call has returned and
\* after the event wait has delivered a quit event; for any sequence of other
\* events and any outcome of the blocking wait, no object is destroyed before
\* a quit event has been received.
C15_AsStated ==
    TeardownBegun => PresentReturned /\ QuitReceived

\* C15: the first teardown step (the destruction of the "render finished"
\* semaphore) occurs only after the present call has returned and after the
\* event wait has either delivered a quit event or returned 0 (its error
\* return); an event of any other type leaves main() waiting, and until the
\* wait ends in one of these two ways the only objects destroyed are the two
\* shader modules CreateGraphicsPipeline releases itself.
C15_TeardownAfterQuitOrWaitError ==
    /\ TeardownBegun \/ pc = "vkDestroySemaphore"
        => /\ PresentReturned
           /\ QuitReceived \/ event.returned = 0
           /\ \/ pc = "vkDestroySemaphore"
              \/ Len(destroyed) > 2 /\ destroyed[3] = RenderFinishedSemaphore
    /\ event.returned = 1 /\ event.type # "SDL_QUIT"
        => /\ pc = "SDL_WaitEvent"
           /\ ~TeardownBegun
    /\ ~TeardownBegun
        => \A k \in 1..Len(destroyed) :
             destroyed[k] \in {VertexShaderModule, FragmentShaderModule}

\* teardown after events of another type and a failed wait, no quit event
C15_Witness ==
    /\ event = [returned |-> 0, type |-> "other"]
    /\ PresentReturned
    /\ Len(destroyed) > 2
    /\ destroyed[3] = RenderFinishedSemaphore

\* C16: whenever DrawFrame reaches the queue submit, the image index that
\* selects the command buffer (and is passed to present) is a value the
\* acquire call wrote and lies in 0 .. swapchainImageCount - 1, for every
\* outcome of the acquire: only a recorded command buffer is submitted.
C16_ImageIndexWrittenAndInRange ==
    \A k \in 1..Len(frame) :
        /\ frame[k].call = "vkQueueSubmit"
            => /\ \E a \in 1..(k - 1), imageIndex \in 0..(swapchainImageCount - 1) :
                    /\ frame[a].call = "vkAcquireNextImageKHR"
                    /\ imageIndex \in frame[a].written
                    /\ frame[k].pCommandBuffers = <<commandBuffers[imageIndex + 1].handle>>
               /\ \E b \in 1..Len(commandBuffers) :
                    /\ frame[k].pCommandBuffers[1] = commandBuffers[b].handle
                    /\ commandBuffers[b].state = "executable"
        /\ frame[k].call = "vkQueuePresentKHR"
            => /\ frame[k].pImageIndices[1] \in 0..(swapchainImageCount - 1)
               /\ \E a \in 1..(k - 1) :
                    /\ frame[a].call = "vkAcquireNextImageKHR"
                    /\ frame[k].pImageIndices[1] \in frame[a].written

====
